---- MODULE Spec2Model ----
(***************************************************************************)
(* Model of the step-table assembly of create_word_doc_from_template       *)
(* (backend/app.py): the step table of the template is cleared down to its *)
(* header row, one row is rendered per step, the SLA merge planner scans   *)
(* the step sequence once, and the merge applier shades / merges / fills   *)
(* the SLA column.  Indices idx, merge_start, merge_end are 0-based as in  *)
(* the Python source; At(s, i) reads the 0-based element i of a sequence.  *)
(***************************************************************************)
EXTENDS Integers, Sequences, FiniteSets, TLC

VARIABLES
    sessions,    \* keys of _preview_sessions
    issued,      \* number of session ids drawn so far (each uuid4 is new)
    delivered,   \* session ids for which a document response has been returned
    requests,    \* the requests received, each with its handler's position
    builds,      \* the locals of each concurrent call of create_word_doc_from_template
    docs,        \* the Document object each concurrent call works on
    num_tables,  \* len(doc.tables) of the loaded template
    context,     \* the three auxiliary lists of the context argument
    aux_tables,  \* rows of doc.tables[3], doc.tables[4] and doc.tables[7]
    template,    \* rows of doc.tables[6] as loaded from the template file
    steps,       \* context.get('steps', [])
    table,       \* rows of doc.tables[6] of the document being built
    pc,          \* position inside create_word_doc_from_template
    idx,         \* planner scan index
    sla_merges,  \* planner output: sequence of <<merge_start, merge_end, sla>>
    rendered,    \* number of steps the row loop has rendered
    applied,     \* number of entries of sla_merges the applier has processed
    result       \* return value: "pending", "stream" or "None"

vars == <<sessions, issued, delivered, requests, builds, docs, num_tables, context, aux_tables, template, steps, table, pc, rendered, idx, sla_merges, applied, result>>

----------------------------------------------------------------------------
(* Bounds *)

MaxSteps == 3          \* longest step sequence of the planner-oriented inputs
MaxGroupSteps == 4     \* longest step sequence of the group-oriented inputs
MaxRenderSteps == 2    \* longest step sequence of the renderer-oriented inputs
MaxTemplateRows == 2   \* most data rows the template's step table holds
MaxPlanSteps == 3      \* longest step sequence of the planner's own inputs
MaxApplySteps == 3     \* longest step sequence of the applier-oriented inputs
MaxTemplateSteps == 2  \* longest step sequence of the template-oriented inputs
MaxCallSteps == 2      \* longest step sequence of a concurrent call
MaxSessions == 2       \* most sessions created
MaxRequests == 3       \* most requests received
MaxRaciSteps == 2      \* longest step sequence of the RACI-oriented inputs
MaxParas == 2          \* most paragraphs of a step's description
MaxListLen == 2        \* most records of an auxiliary list
MaxListRows == 2       \* most data rows an auxiliary table of the template holds

----------------------------------------------------------------------------
(* Values *)

None == "<None>"                 \* Python None / absent key
Truthy(v) == v \notin {None, ""}  \* Python truthiness of an optional string

NumCols == 7                     \* ref, description, R, A, C, I, sla
SlaCol == 6                      \* 0-based index of the SLA cell
GatewayFill == "D9D9D9"
SlaFill == "F2F2F2"
NoFill == ""

Roles == <<"responsible", "accountable", "consulted", "informed">>

At(s, i) == s[i + 1]

\* A paragraph is an alignment and its runs (the text of each run).
Para(al, runs) == [alignment |-> al, runs |-> runs]

\* A cell: its paragraphs, the fill of its w:shd ("" when it has none) and
\* its w:vMerge elements in document order.
Cell(paras, shd, vm) == [paras |-> paras, shd |-> shd, vMerge |-> vm]

RECURSIVE ConcatRuns(_)
ConcatRuns(runs) ==
    IF runs = << >> THEN "" ELSE Head(runs) \o ConcatRuns(Tail(runs))

RECURSIVE ConcatParas(_)
ConcatParas(paras) ==
    IF paras = << >> THEN ""
    ELSE ConcatRuns(Head(paras).runs) \o ConcatParas(Tail(paras))

\* cell.text as python-docx reports it (paragraph separators left out).
CellText(cell) == ConcatParas(cell.paras)

HeaderRow == [c \in 1..NumCols |-> Cell(<<Para("CENTER", <<"HDR">>)>>, NoFill, << >>)]

\* A data row left in the template: text, shading and a merge mark everywhere.
StaleRow ==
    [c \in 1..NumCols |-> Cell(<<Para("LEFT", <<"old">>)>>, SlaFill, <<"restart">>)]

\* The tables of a complete template: indices 0..7, the step table at 6 and
\* the policies table at 7.
AllTables == 8

\* The step table of a template whose rows have cols cells.
TemplateOfWidth(cols) ==
    <<[c \in 1..cols |-> HeaderRow[c]], [c \in 1..cols |-> StaleRow[c]]>>

\* Number of cells of a row the table hands out (the width of its grid).
Columns(rows) == Len(rows[1])

Templates ==
    { <<HeaderRow>> \o [k \in 1..n |-> StaleRow] : n \in 0..MaxTemplateRows }

DefaultRaci == [r \in {"responsible", "accountable", "consulted", "informed"} |->
                  IF r = "responsible" THEN "PM"
                  ELSE IF r = "accountable" THEN ""
                  ELSE IF r = "consulted" THEN None ELSE "QA"]

Step(ref, gw, sla, grp) ==
    [ref |-> ref, paragraphs |-> << >>, raci |-> DefaultRaci,
     is_gateway |-> gw, sla |-> sla, sla_group |-> grp]

StepWith(ref, paragraphs, raci, gw, sla, grp) ==
    [ref |-> ref, paragraphs |-> paragraphs, raci |-> raci,
     is_gateway |-> gw, sla |-> sla, sla_group |-> grp]

\* Inputs that exercise the planner: every combination of gateway flag,
\* own SLA and group key, and a group member whose SLA is the empty string.
PlanSteps ==
    { Step("1", gw, sla, grp) :
        gw \in BOOLEAN, sla \in {None, "4h"}, grp \in {None, "G1", "G2"} }
    \cup { Step("1", FALSE, "", "G1") }

\* Inputs that exercise long group runs: every step has an SLA, gateways and
\* tasks carry either no key or one of two keys.
GroupSteps ==
    { Step("1", gw, "4h", grp) : gw \in BOOLEAN, grp \in {None, "G1", "G2"} }

\* Inputs that exercise the renderer: rows are told apart by their ref.
RenderSteps ==
    { Step(ref, gw, sg[1], sg[2]) :
        ref \in {"", "1", "2"}, gw \in BOOLEAN,
        sg \in {<<None, None>>, <<"24h", None>>} }

SeqsUpTo(S, n) == UNION { [1..k -> S] : k \in 0..n }

RoleSet == {"responsible", "accountable", "consulted", "informed"}

\* Inputs that exercise the applier: ranges of one and of several rows,
\* adjacent ranges, rows outside every range, the values '4h', '' and None.
ApplySteps ==
    { Step("1", gw, sla, grp) :
        gw \in BOOLEAN, sla \in {None, "4h"}, grp \in {None, "G1"} }
    \cup { Step("1", FALSE, "", "G1") }

\* A step dict that has no 'raci' key.
StepNoRaci(ref, gw) ==
    [ref |-> ref, paragraphs |-> << >>, is_gateway |-> gw, sla |-> None, sla_group |-> None]

\* raci mappings: no key at all, every key with a value, one key only, and
\* keys holding None or ''.
RaciMaps ==
    { [r \in {} |-> ""],
      DefaultRaci,
      [r \in {"responsible"} |-> "PM"],
      [r \in RoleSet |-> "QA"],
      [r \in {"accountable", "informed"} |-> IF r = "accountable" THEN None ELSE ""] }

\* Inputs that exercise the RACI cells.
RaciSteps ==
    { StepWith("1", << >>, raci, gw, None, None) : raci \in RaciMaps, gw \in BOOLEAN }
    \cup { StepNoRaci("2", FALSE) }

\* Paragraph records: recognised and unrecognised alignments, empty and
\* non-empty text.
ParaData ==
    { [text |-> t, alignment |-> a, font_size |-> 12, bold |-> FALSE] :
        t \in {"", "x"},
        a \in {"LEFT", "CENTER", "JUSTIFY", "RIGHT", "center", None} }

\* Inputs that exercise the description cell: one step, some paragraphs.
ParaStepSeqs ==
    { <<StepWith("1", ps, DefaultRaci, gw, "4h", None)>> :
        ps \in SeqsUpTo(ParaData, MaxParas), gw \in BOOLEAN }

\* Step sequences that accompany the auxiliary-list inputs: they take the
\* build through each planner branch, and through the failing write.
DocStepSeqs ==
    { << >>,
      <<Step("1", FALSE, "4h", None), Step("", TRUE, None, None)>>,
      <<Step("1", FALSE, None, None), Step("2", FALSE, "4h", "G1")>>,
      <<Step("1", FALSE, None, "G1")>> }

----------------------------------------------------------------------------
(* Auxiliary lists and their tables.  A row of an auxiliary table is the
   text of its two cells. *)

\* dict.get(key, '') on a record of an auxiliary list
Get(rec, key) == IF key \in DOMAIN rec THEN rec[key] ELSE ""

\* context.get(key, []) : an absent list reads as the empty list.
ListEntry(present, value) == [present |-> present, value |-> value]
CtxGet(ctx, key) == IF ctx[key].present THEN ctx[key].value ELSE << >>

AbbrevRecords ==
    { [term |-> "SLA", definition |-> "Service level"],
      [term |-> "KPI"] }

RefRecords ==
    { [id |-> "DGM-1", title |-> "Diagram"],
      [id |-> "N/A", title |-> "Approval"] }

PolicyRecords ==
    { [ref |-> "9", policy |-> "Be safe"],
      [ref |-> "", policy |-> "Be quick"] }

ListValues(records) ==
    { ListEntry(FALSE, << >>) }
    \cup { ListEntry(TRUE, l) : l \in SeqsUpTo(records, MaxListLen) }

Contexts ==
    { [abbreviations_list |-> a, references_list |-> r, general_policies_list |-> g] :
        a \in ListValues(AbbrevRecords),
        r \in ListValues(RefRecords),
        g \in ListValues(PolicyRecords) }

NoLists ==
    [abbreviations_list |-> ListEntry(FALSE, << >>),
     references_list |-> ListEntry(FALSE, << >>),
     general_policies_list |-> ListEntry(FALSE, << >>)]

\* A context holding one record in each list.
FullLists ==
    [abbreviations_list |-> ListEntry(TRUE, <<[term |-> "SLA", definition |-> "Service level"]>>),
     references_list |-> ListEntry(TRUE, <<[id |-> "DGM-1", title |-> "Diagram"]>>),
     general_policies_list |-> ListEntry(TRUE, <<[ref |-> "9", policy |-> "Be safe"]>>)]

TitleRow == <<"TITLE", "TITLE">>
ColumnsRow == <<"HDR1", "HDR2">>
StaleListRow == <<"old", "old">>
PlaceholderRow == <<"N/A", "N/A">>

\* Tables 3 and 4 start with a title row and a column-header row, table 7
\* with a column-header row; data rows of the template follow.
AuxTables(n) ==
    [abbreviations |-> <<TitleRow, ColumnsRow>> \o [k \in 1..n |-> StaleListRow],
     references |-> <<TitleRow, ColumnsRow>> \o [k \in 1..n |-> StaleListRow],
     policies |-> <<ColumnsRow>> \o [k \in 1..n |-> StaleListRow]]

----------------------------------------------------------------------------
(* Row Renderer *)

IsGateway(step) == step.is_gateway

\* Cell 0: cleared, centred, one more run holding the ref when it is truthy.
RefCell(step) ==
    Cell(<<Para("CENTER", IF Truthy(step.ref) THEN <<"", step.ref>> ELSE <<"">>)>>,
         NoFill, << >>)

\* Mutant: 'RIGHT' is taken as an alignment of its own.
AlignmentKeepsRight(a) ==
    IF a = "CENTER" THEN "CENTER"
    ELSE IF a = "JUSTIFY" THEN "JUSTIFY"
    ELSE IF a = "RIGHT" THEN "RIGHT" ELSE "LEFT"

Alignment(a) ==
    IF a = "CENTER" THEN "CENTER" ELSE IF a = "JUSTIFY" THEN "JUSTIFY" ELSE "LEFT"

\* Cell 1: the default paragraph is removed, then one paragraph per entry.
DescCell(step) ==
    Cell([k \in 1..Len(step.paragraphs) |->
            Para(Alignment(step.paragraphs[k].alignment),
                 IF Truthy(step.paragraphs[k].text)
                 THEN <<step.paragraphs[k].text>> ELSE << >>)],
         NoFill, << >>)

\* Mutant: the default covers a missing key only (no `or 'N/A'`).
RaciValueKeyDefaultOnly(step, role) ==
    IF "raci" \in DOMAIN step /\ role \in DOMAIN step.raci
    THEN step.raci[role] ELSE "N/A"

\* raci = step.get('raci', {}); raci.get(key, 'N/A') or 'N/A'
RaciValue(step, role) ==
    LET raci == IF "raci" \in DOMAIN step THEN step.raci ELSE << >>
    IN IF role \in DOMAIN raci /\ Truthy(raci[role]) THEN raci[role] ELSE "N/A"

\* Cells 2..5: cleared, centred, one more run holding the role value.
RaciCell(step, role) ==
    Cell(<<Para("CENTER", <<"", RaciValue(step, role)>>)>>, NoFill, << >>)

\* Cell 6: cleared, centred, one more empty run; the value is left blank.
SlaCellInit == Cell(<<Para("CENTER", <<"", "">>)>>, NoFill, << >>)

\* Mutant: the SLA cell of a gateway row is shaded with the others.
GatewayShadeWholeRow(row) ==
    [c \in 1..NumCols |-> [row[c] EXCEPT !.shd = GatewayFill]]

\* Gateway shading: every cell of the row but the SLA cell gets D9D9D9.
GatewayShade(row) ==
    [c \in 1..NumCols |->
        IF c - 1 = SlaCol THEN row[c] ELSE [row[c] EXCEPT !.shd = GatewayFill]]

RenderRow(step) ==
    LET row == [c \in 1..NumCols |->
                  IF c = 1 THEN RefCell(step)
                  ELSE IF c = 2 THEN DescCell(step)
                  ELSE IF c - 1 = SlaCol THEN SlaCellInit
                  ELSE RaciCell(step, Roles[c - 2])]
    IN IF IsGateway(step) THEN GatewayShade(row) ELSE row

----------------------------------------------------------------------------
(* Merge-Range Planner *)

\* Mutant: only the first gateway after the step is absorbed.
AbsorbGatewaysOnce(s, merge_end, j) ==
    IF j < Len(s) /\ IsGateway(At(s, j)) THEN <<j, j + 1>> ELSE <<merge_end, j>>

\* Mutant: steps without SLA and group are absorbed like gateways.
RECURSIVE AbsorbGatewaysNoSla(_, _, _)
AbsorbGatewaysNoSla(s, merge_end, j) ==
    IF j < Len(s) /\ (IsGateway(At(s, j))
                       \/ (~Truthy(At(s, j).sla) /\ ~Truthy(At(s, j).sla_group)))
    THEN AbsorbGatewaysNoSla(s, j, j + 1)
    ELSE <<merge_end, j>>

\* while j < len(steps) and steps[j].get('is_gateway', False):
\*     merge_end = j; j += 1
RECURSIVE AbsorbGateways(_, _, _)
AbsorbGateways(s, merge_end, j) ==
    IF j < Len(s) /\ IsGateway(At(s, j))
    THEN AbsorbGateways(s, j, j + 1)
    ELSE <<merge_end, j>>

\* Mutant: the gateways that follow a later group member are not absorbed.
RECURSIVE AbsorbGroupNoGateways(_, _, _, _)
AbsorbGroupNoGateways(s, grp, merge_end, j) ==
    IF j < Len(s) /\ At(s, j).sla_group = grp
    THEN AbsorbGroupNoGateways(s, grp, j, j + 1)
    ELSE <<merge_end, j>>

\* Mutant: any grouped step continues the range, whatever its key.
RECURSIVE AbsorbGroupAnyKey(_, _, _, _)
AbsorbGroupAnyKey(s, grp, merge_end, j) ==
    IF j < Len(s) /\ Truthy(At(s, j).sla_group)
    THEN LET r == AbsorbGateways(s, j, j + 1)
         IN AbsorbGroupAnyKey(s, grp, r[1], r[2])
    ELSE <<merge_end, j>>

\* Mutant: ungrouped steps do not end the group's run.
RECURSIVE AbsorbGroupThroughUngrouped(_, _, _, _)
AbsorbGroupThroughUngrouped(s, grp, merge_end, j) ==
    IF j < Len(s) /\ (At(s, j).sla_group = grp \/ ~Truthy(At(s, j).sla_group))
    THEN LET r == AbsorbGateways(s, j, j + 1)
         IN AbsorbGroupThroughUngrouped(s, grp, r[1], r[2])
    ELSE <<merge_end, j>>

\* while j < len(steps) and steps[j].get('sla_group') == sla_group:
\*     merge_end = j; j += 1; <absorb gateways>
RECURSIVE AbsorbGroup(_, _, _, _)
AbsorbGroup(s, grp, merge_end, j) ==
    IF j < Len(s) /\ At(s, j).sla_group = grp
    THEN LET r == AbsorbGateways(s, j, j + 1)
         IN AbsorbGroup(s, grp, r[1], r[2])
    ELSE <<merge_end, j>>

\* Mutant: the range also takes the ungrouped steps that follow with the
\* same sla.
OwnSlaRangeJoinsEqualSla(s, i) ==
    LET Joins(d) == \/ At(s, d).is_gateway
                    \/ /\ At(s, d).sla = At(s, i).sla
                       /\ ~Truthy(At(s, d).sla_group)
        e == CHOOSE e \in i..(Len(s) - 1) :
                 /\ \A d \in (i + 1)..e : Joins(d)
                 /\ e + 1 < Len(s) => ~Joins(e + 1)
    IN [merge |-> <<i, e, At(s, i).sla>>, next |-> e + 1]

\* Mutant: the range is the step alone.
OwnSlaRangeNoAbsorb(s, i) ==
    [merge |-> <<i, i, At(s, i).sla>>, next |-> i + 1]

\* Mutant: the scan resumes right after the step (idx += 1, not idx = j).
OwnSlaRangeStepOne(s, i) ==
    LET r == AbsorbGateways(s, i, i + 1)
    IN [merge |-> <<i, r[1], At(s, i).sla>>, next |-> i + 1]

\* Branch 1: the step has an SLA of its own and no group.
OwnSlaRange(s, i) ==
    LET r == AbsorbGateways(s, i, i + 1)
    IN [merge |-> <<i, r[1], At(s, i).sla>>, next |-> r[2]]

\* Mutant: the value of the range is the sla of its last step.
GroupRangeLastSla(s, i) ==
    LET g == AbsorbGateways(s, i, i + 1)
        r == AbsorbGroup(s, At(s, i).sla_group, g[1], g[2])
    IN [merge |-> <<i, r[1], At(s, r[1]).sla>>, next |-> r[2]]

\* Mutant: the scan resumes right after the start step of the range.
GroupRangeResumeAtNext(s, i) ==
    LET g == AbsorbGateways(s, i, i + 1)
        r == AbsorbGroup(s, At(s, i).sla_group, g[1], g[2])
    IN [merge |-> <<i, r[1], At(s, i).sla>>, next |-> i + 1]

\* Branch 2: the step carries a group key.
GroupRange(s, i) ==
    LET g == AbsorbGateways(s, i, i + 1)
        r == AbsorbGroup(s, At(s, i).sla_group, g[1], g[2])
    IN [merge |-> <<i, r[1], At(s, i).sla>>, next |-> r[2]]

\* Mutant: the skip branch leaves the scan where it is.
SkipNextStay(s, i) == i

\* Mutant: the skip moves one step on and absorbs no gateway.
SkipNextStepOne(s, i) == i + 1

\* Branch 3: idx += 1, then past every gateway that follows.
SkipNext(s, i) == AbsorbGateways(s, i, i + 1)[2]

----------------------------------------------------------------------------
(* Merge Applier *)

\* Mutant: only the first row of a range is shaded.
ApplyCellShadeAnchorOnly(cell, row_offset, merge) ==
    LET shaded == IF row_offset = merge[1] THEN [cell EXCEPT !.shd = SlaFill] ELSE cell
        merged == IF merge[2] > merge[1]
                  THEN [shaded EXCEPT !.vMerge =
                          Append(@, IF row_offset = merge[1]
                                    THEN "restart" ELSE "continue")]
                  ELSE shaded
    IN IF row_offset = merge[1] /\ merged.paras[1].runs # << >>
       THEN [merged EXCEPT !.paras[1].runs[1] = merge[3]]
       ELSE merged

\* Mutant: the cell is marked whatever the length of the range.
ApplyCellAlwaysMarks(cell, row_offset, merge) ==
    LET shaded == [cell EXCEPT !.shd = SlaFill]
        merged == [shaded EXCEPT !.vMerge =
                     Append(@, IF row_offset = merge[1]
                               THEN "restart" ELSE "continue")]
    IN IF row_offset = merge[1] /\ merged.paras[1].runs # << >>
       THEN [merged EXCEPT !.paras[1].runs[1] = merge[3]]
       ELSE merged

\* Mutant: every row of the range receives the value.
ApplyCellTextEveryRow(cell, row_offset, merge) ==
    LET shaded == [cell EXCEPT !.shd = SlaFill]
        merged == IF merge[2] > merge[1]
                  THEN [shaded EXCEPT !.vMerge =
                          Append(@, IF row_offset = merge[1]
                                    THEN "restart" ELSE "continue")]
                  ELSE shaded
    IN IF merged.paras[1].runs # << >>
       THEN [merged EXCEPT !.paras[1].runs[1] = merge[3]]
       ELSE merged

\* The SLA cell of the row of step row_offset, as one pass of the inner
\* loop leaves it: shaded, marked when the range spans several rows, and
\* holding the value in its first run when it is the first row.
ApplyCell(cell, row_offset, merge) ==
    LET shaded == [cell EXCEPT !.shd = SlaFill]
        merged == IF merge[2] > merge[1]
                  THEN [shaded EXCEPT !.vMerge =
                          Append(@, IF row_offset = merge[1]
                                    THEN "restart" ELSE "continue")]
                  ELSE shaded
    IN IF row_offset = merge[1] /\ merged.paras[1].runs # << >>
       THEN [merged EXCEPT !.paras[1].runs[1] = merge[3]]
       ELSE merged

\* Mutant: the rows are looked up two rows below the header (row_offset + 2).
ApplyRangeOffsetTwo(rows, merge) ==
    [r \in 1..Len(rows) |->
        IF (r - 3) \in merge[1]..merge[2]
        THEN [rows[r] EXCEPT ![SlaCol + 1] = ApplyCell(@, r - 3, merge)]
        ELSE rows[r]]

\* Mutant: the applier works on the cell left of the SLA cell.
ApplyRangeWrongColumn(rows, merge) ==
    [r \in 1..Len(rows) |->
        IF (r - 2) \in merge[1]..merge[2]
        THEN [rows[r] EXCEPT ![SlaCol] = ApplyCell(@, r - 2, merge)]
        ELSE rows[r]]

\* for row_offset in range(merge_start, merge_end + 1): rows past the end
\* of the table stop the loop.
ApplyRange(rows, merge) ==
    [r \in 1..Len(rows) |->
        IF (r - 2) \in merge[1]..merge[2]
        THEN [rows[r] EXCEPT ![SlaCol + 1] = ApplyCell(@, r - 2, merge)]
        ELSE rows[r]]

\* run.text = None raises inside python-docx (the text is iterated): the
\* first row of a range whose value is None ends the build in the handler.
RaisesOnWrite(rows, merge) ==
    /\ merge[3] = None
    /\ merge[1] + 1 < Len(rows)
    /\ rows[merge[1] + 2][SlaCol + 1].paras[1].runs # << >>

\* The table as the exception leaves it: the first row is already shaded
\* and marked, its text is untouched.
ApplyUntilRaise(rows, merge) ==
    [rows EXCEPT ![merge[1] + 2][SlaCol + 1] =
        [ApplyCell(@, merge[1], merge) EXCEPT !.paras = rows[merge[1] + 2][SlaCol + 1].paras]]

----------------------------------------------------------------------------
(* Document Assembler *)

\* Mutant: rows 0 and 1 are kept (range(len - 1, 1, -1)).
ClearDataRowsKeepTwo(rows) == SubSeq(rows, 1, IF Len(rows) < 2 THEN Len(rows) ELSE 2)

\* rows_to_delete = range(len(table.rows) - 1, 0, -1): all rows but row 0.
ClearDataRows(rows) == SubSeq(rows, 1, IF Len(rows) = 0 THEN 0 ELSE 1)

\* rows_to_delete = range(len(rows) - 1, 1, -1): all rows but rows 0 and 1.
ClearBelowHeaders(rows) == SubSeq(rows, 1, IF Len(rows) < 2 THEN Len(rows) ELSE 2)

\* Mutant: an empty list leaves the table without a data row.
ListRowsNoPlaceholder(list, key0, key1) ==
    [k \in 1..Len(list) |-> <<Get(list[k], key0), Get(list[k], key1)>>]

\* if <list>: one row per record (cells 0 and 1 from the two keys)
\* else: one row holding 'N/A' in both cells
ListRows(list, key0, key1) ==
    IF list # << >>
    THEN [k \in 1..Len(list) |-> <<Get(list[k], key0), Get(list[k], key1)>>]
    ELSE <<PlaceholderRow>>

\* str(idx) for the running number of a policy row
Str(i) == <<"1", "2", "3", "4", "5", "6", "7", "8", "9">>[i]

\* for idx, policy in enumerate(policies, start=1): the Ref cell is the
\* running number, the text cell the record's 'policy'.
PolicyRows(list) ==
    IF list # << >>
    THEN [k \in 1..Len(list) |-> <<Str(k), Get(list[k], "policy")>>]
    ELSE <<PlaceholderRow>>

\* The state every build starts in, whatever its inputs.
BuildStart ==
    /\ sessions = {}
    /\ issued = 0
    /\ delivered = {}
    /\ requests = << >>
    /\ builds = << >>
    /\ docs = << >>
    /\ table = template
    /\ pc = "lists"
    /\ rendered = 0
    /\ idx = 0
    /\ sla_merges = << >>
    /\ applied = 0
    /\ result = "pending"

Init ==
    /\ \/ /\ steps \in SeqsUpTo(PlanSteps, MaxSteps)
          /\ template = <<HeaderRow, StaleRow>>
       \/ /\ steps \in SeqsUpTo(GroupSteps, MaxGroupSteps)
          /\ template = <<HeaderRow, StaleRow>>
       \/ /\ steps \in SeqsUpTo(RenderSteps, MaxRenderSteps)
          /\ template \in Templates
    /\ num_tables = AllTables
    /\ context = NoLists
    /\ aux_tables = AuxTables(1)
    /\ BuildStart

\* Inputs of the applier's properties.
InitApply ==
    /\ steps \in SeqsUpTo(ApplySteps, MaxApplySteps)
    /\ template = <<HeaderRow, StaleRow>>
    /\ num_tables = AllTables
    /\ context = NoLists
    /\ aux_tables = AuxTables(1)
    /\ BuildStart

\* Inputs of the document-level properties: RACI mappings, description
\* paragraphs, auxiliary lists and the data rows of their tables.
InitDoc ==
    /\ \/ /\ steps \in SeqsUpTo(RaciSteps, MaxRaciSteps)
          /\ context = NoLists
          /\ aux_tables = AuxTables(1)
       \/ /\ steps \in ParaStepSeqs
          /\ context = NoLists
          /\ aux_tables = AuxTables(1)
       \/ /\ steps \in DocStepSeqs
          /\ context \in Contexts
          /\ aux_tables \in {AuxTables(n) : n \in 0..MaxListRows}
    /\ template = <<HeaderRow, StaleRow>>
    /\ num_tables = AllTables
    /\ BuildStart

\* Step sequences that accompany the template inputs: none, a task with an
\* SLA, a gateway, and a grouped task without SLA (the failing write).
TemplateSteps ==
    { Step("1", FALSE, "4h", None), Step("", TRUE, None, None), Step("2", FALSE, None, "G1") }

\* Inputs of the template properties: documents of 0..AllTables tables whose
\* step table is 0..NumCols cells wide.
InitTemplate ==
    /\ steps \in SeqsUpTo(TemplateSteps, MaxTemplateSteps)
    /\ num_tables \in 0..AllTables
    /\ template \in {TemplateOfWidth(cols) : cols \in 0..NumCols}
    /\ context \in {NoLists, FullLists}
    /\ aux_tables = AuxTables(1)
    /\ BuildStart

\* if not doc.tables: raise Exception("No tables found in template")
NoTables ==
    /\ pc = "lists"
    /\ num_tables = 0
    /\ pc' = "failed"
    /\ result' = "None"
    /\ UNCHANGED <<sessions, issued, delivered, requests, builds, docs, num_tables, context, aux_tables, template, steps, table, rendered, idx, sla_merges, applied>>

\* Tables 3 and 4, each when the document has it (len(doc.tables) > 3,
\* > 4): cleared below their two header rows, then filled.
PopulateLists ==
    /\ pc = "lists"
    /\ num_tables > 0
    /\ aux_tables' =
          [aux_tables EXCEPT
             !.abbreviations =
                IF num_tables > 3
                THEN ClearBelowHeaders(@)
                        \o ListRows(CtxGet(context, "abbreviations_list"), "term", "definition")
                ELSE @,
             !.references =
                IF num_tables > 4
                THEN ClearBelowHeaders(@)
                        \o ListRows(CtxGet(context, "references_list"), "id", "title")
                ELSE @]
    /\ pc' = "clear"
    /\ UNCHANGED <<sessions, issued, delivered, requests, builds, docs, num_tables, context, template, steps, table, rendered, idx, sla_merges, applied, result>>

\* table = doc.tables[6] raises IndexError when the document has no
\* table at index 6.
StepTableMissing ==
    /\ pc = "clear"
    /\ num_tables <= 6
    /\ pc' = "failed"
    /\ result' = "None"
    /\ UNCHANGED <<sessions, issued, delivered, requests, builds, docs, num_tables, context, aux_tables, template, steps, table, rendered, idx, sla_merges, applied>>

ClearRows ==
    /\ pc = "clear"
    /\ num_tables > 6
    /\ table' = ClearDataRows(table)
    /\ pc' = "render"
    /\ UNCHANGED <<sessions, issued, delivered, requests, builds, docs, num_tables, context, aux_tables, template, steps, rendered, idx, sla_merges, applied, result>>

\* The row of a table too narrow for the renderer: add_row() gave it
\* Columns(table) cells, each written until cells[...] raised IndexError,
\* before any gateway shading.
RenderFail ==
    /\ pc = "render"
    /\ rendered < Len(steps)
    /\ Columns(table) < NumCols
    /\ table' = Append(table,
                       [c \in 1..Columns(table) |->
                          RenderRow([At(steps, rendered) EXCEPT !.is_gateway = FALSE])[c]])
    /\ pc' = "failed"
    /\ result' = "None"
    /\ UNCHANGED <<sessions, issued, delivered, requests, builds, docs, num_tables, context, aux_tables, template, steps, rendered, idx, sla_merges, applied>>

RenderStep ==
    /\ pc = "render"
    /\ rendered < Len(steps)
    /\ Columns(table) >= NumCols
    /\ table' = Append(table, RenderRow(At(steps, rendered)))
    /\ rendered' = rendered + 1
    /\ UNCHANGED <<sessions, issued, delivered, requests, builds, docs, num_tables, context, aux_tables, template, steps, pc, idx, sla_merges, applied, result>>

StartPlan ==
    /\ pc = "render"
    /\ rendered = Len(steps)
    /\ sla_merges' = << >>
    /\ idx' = 0
    /\ pc' = "plan"
    /\ UNCHANGED <<sessions, issued, delivered, requests, builds, docs, num_tables, context, aux_tables, template, steps, table, rendered, applied, result>>

PlanOwnSla ==
    /\ pc = "plan"
    /\ idx < Len(steps)
    /\ Truthy(At(steps, idx).sla) /\ ~Truthy(At(steps, idx).sla_group)
    /\ sla_merges' = Append(sla_merges, OwnSlaRange(steps, idx).merge)
    /\ idx' = OwnSlaRange(steps, idx).next
    /\ UNCHANGED <<sessions, issued, delivered, requests, builds, docs, num_tables, context, aux_tables, template, steps, table, pc, rendered, applied, result>>

PlanGroup ==
    /\ pc = "plan"
    /\ idx < Len(steps)
    /\ ~(Truthy(At(steps, idx).sla) /\ ~Truthy(At(steps, idx).sla_group))
    /\ Truthy(At(steps, idx).sla_group)
    /\ sla_merges' = Append(sla_merges, GroupRange(steps, idx).merge)
    /\ idx' = GroupRange(steps, idx).next
    /\ UNCHANGED <<sessions, issued, delivered, requests, builds, docs, num_tables, context, aux_tables, template, steps, table, pc, rendered, applied, result>>

PlanSkip ==
    /\ pc = "plan"
    /\ idx < Len(steps)
    /\ ~Truthy(At(steps, idx).sla) /\ ~Truthy(At(steps, idx).sla_group)
    /\ idx' = SkipNext(steps, idx)
    /\ UNCHANGED <<sessions, issued, delivered, requests, builds, docs, num_tables, context, aux_tables, template, steps, table, pc, rendered, sla_merges, applied, result>>

StartApply ==
    /\ pc = "plan"
    /\ idx >= Len(steps)
    /\ applied' = 0
    /\ pc' = "apply"
    /\ UNCHANGED <<sessions, issued, delivered, requests, builds, docs, num_tables, context, aux_tables, template, steps, table, rendered, idx, sla_merges, result>>

ApplyMerge ==
    /\ pc = "apply"
    /\ applied < Len(sla_merges)
    /\ ~RaisesOnWrite(table, At(sla_merges, applied))
    /\ table' = ApplyRange(table, At(sla_merges, applied))
    /\ applied' = applied + 1
    /\ UNCHANGED <<sessions, issued, delivered, requests, builds, docs, num_tables, context, aux_tables, template, steps, pc, rendered, idx, sla_merges, result>>

\* except Exception: ... return None
ApplyFail ==
    /\ pc = "apply"
    /\ applied < Len(sla_merges)
    /\ RaisesOnWrite(table, At(sla_merges, applied))
    /\ table' = ApplyUntilRaise(table, At(sla_merges, applied))
    /\ pc' = "failed"
    /\ result' = "None"
    /\ UNCHANGED <<sessions, issued, delivered, requests, builds, docs, num_tables, context, aux_tables, template, steps, rendered, idx, sla_merges, applied>>

\* Mutant: table 7 is read without the len(doc.tables) > 7 guard, so a
\* document without it ends the build in the handler.
PopulatePoliciesUnguarded ==
    /\ pc = "apply"
    /\ applied = Len(sla_merges)
    /\ IF num_tables > 7
       THEN /\ aux_tables' =
                 [aux_tables EXCEPT
                    !.policies =
                       ClearDataRows(@) \o PolicyRows(CtxGet(context, "general_policies_list"))]
            /\ pc' = "save"
            /\ result' = result
       ELSE /\ aux_tables' = aux_tables
            /\ pc' = "failed"
            /\ result' = "None"
    /\ UNCHANGED <<sessions, issued, delivered, requests, builds, docs, num_tables, context, template, steps, table, rendered, idx, sla_merges, applied>>

\* Table 7, when the document has it (len(doc.tables) > 7): cleared below
\* its header row, then filled.
PopulatePolicies ==
    /\ pc = "apply"
    /\ applied = Len(sla_merges)
    /\ aux_tables' =
          [aux_tables EXCEPT
             !.policies =
                IF num_tables > 7
                THEN ClearDataRows(@) \o PolicyRows(CtxGet(context, "general_policies_list"))
                ELSE @]
    /\ pc' = "save"
    /\ UNCHANGED <<sessions, issued, delivered, requests, builds, docs, num_tables, context, template, steps, table, rendered, idx, sla_merges, applied, result>>

\* doc.save(file_stream); return file_stream
Return ==
    /\ pc = "save"
    /\ pc' = "done"
    /\ result' = "stream"
    /\ UNCHANGED <<sessions, issued, delivered, requests, builds, docs, num_tables, context, aux_tables, template, steps, table, rendered, idx, sla_merges, applied>>

Next ==
    \/ PopulateLists
    \/ ClearRows
    \/ RenderStep
    \/ StartPlan
    \/ PlanOwnSla
    \/ PlanGroup
    \/ PlanSkip
    \/ StartApply
    \/ ApplyMerge
    \/ ApplyFail
    \/ PopulatePolicies
    \/ Return

Spec == Init /\ [][Next]_vars

SpecApply == InitApply /\ [][Next]_vars

SpecDoc == InitDoc /\ [][Next]_vars

\* Inputs of the planner's properties.
InitPlan ==
    /\ \/ steps \in SeqsUpTo(PlanSteps, MaxPlanSteps)
       \/ steps \in SeqsUpTo(GroupSteps, MaxGroupSteps)
    /\ template = <<HeaderRow, StaleRow>>
    /\ num_tables = AllTables
    /\ context = NoLists
    /\ aux_tables = AuxTables(1)
    /\ BuildStart

SpecPlan == InitPlan /\ [][Next]_vars

\* The build runs in one thread from entry to return: whenever a step of it
\* is possible, it is taken.
SpecFair == InitApply /\ [][Next]_vars /\ WF_vars(Next)

\* The build against any template: the structural failures included.
NextTemplate ==
    \/ Next
    \/ NoTables
    \/ StepTableMissing
    \/ RenderFail

SpecTemplate == InitTemplate /\ [][NextTemplate]_vars

TypeOK ==
    /\ num_tables \in 0..AllTables
    /\ pc \in {"lists", "clear", "render", "plan", "apply", "save", "done", "failed"}
    /\ rendered \in 0..Len(steps)
    /\ idx \in 0..Len(steps)
    /\ applied \in 0..Len(sla_merges)
    /\ result \in {"pending", "stream", "None"}

----------------------------------------------------------------------------
(* Concurrent builds.  Each call of create_word_doc_from_template runs in
   a worker thread of the server; its locals are builds[b] and the
   Document it loaded is docs[DocOf(b)].  The documents are complete
   templates (eight tables, a step table seven cells wide). *)

NumBuilds == 2
BuildIds == 1..NumBuilds

\* The Document a call loads: rows of the step table and of tables 3, 4, 7.
FreshDoc == [table |-> <<HeaderRow, StaleRow>>, aux_tables |-> AuxTables(1)]

\* The locals of a call at its entry.
EntryLocals(steps_, context_) ==
    [steps |-> steps_, context |-> context_, pc |-> "lists", rendered |-> 0,
     idx |-> 0, sla_merges |-> << >>, applied |-> 0, result |-> [kind |-> "pending"]]

\* Mutant: both calls work on the Document object of the first one.
DocOfFirst(b) == 1

\* doc = Document(temp_stream): every call builds on an object of its own.
DocOf(b) == b

\* Mutant: the list of ranges starts from the ranges of the other call.
NewMergesCarried(b) == builds[IF b = 1 THEN NumBuilds ELSE 1].sla_merges

\* sla_merges = []: the list of ranges is a local of the call.
NewMerges(b) == << >>

\* One step of a call whose locals are l and whose Document is d: the
\* successor locals and Document, phase by phase as in the single build.
BuildStep(l, d, merges0) ==
    LET n == Len(l.steps) IN
    CASE l.pc = "lists" ->
           [l |-> [l EXCEPT !.pc = "clear"],
            d |-> [d EXCEPT
                     !.aux_tables.abbreviations =
                        ClearBelowHeaders(@)
                           \o ListRows(CtxGet(l.context, "abbreviations_list"), "term", "definition"),
                     !.aux_tables.references =
                        ClearBelowHeaders(@)
                           \o ListRows(CtxGet(l.context, "references_list"), "id", "title")]]
      [] l.pc = "clear" ->
           [l |-> [l EXCEPT !.pc = "render"],
            d |-> [d EXCEPT !.table = ClearDataRows(@)]]
      [] l.pc = "render" /\ l.rendered < n ->
           [l |-> [l EXCEPT !.rendered = @ + 1],
            d |-> [d EXCEPT !.table = Append(@, RenderRow(At(l.steps, l.rendered)))]]
      [] l.pc = "render" /\ l.rendered >= n ->
           [l |-> [l EXCEPT !.pc = "plan", !.idx = 0, !.sla_merges = merges0], d |-> d]
      [] l.pc = "plan" /\ l.idx < n ->
           LET sla == At(l.steps, l.idx).sla
               grp == At(l.steps, l.idx).sla_group
           IN IF Truthy(sla) /\ ~Truthy(grp)
              THEN [l |-> [l EXCEPT !.sla_merges = Append(@, OwnSlaRange(l.steps, l.idx).merge),
                                    !.idx = OwnSlaRange(l.steps, l.idx).next],
                    d |-> d]
              ELSE IF Truthy(grp)
              THEN [l |-> [l EXCEPT !.sla_merges = Append(@, GroupRange(l.steps, l.idx).merge),
                                    !.idx = GroupRange(l.steps, l.idx).next],
                    d |-> d]
              ELSE [l |-> [l EXCEPT !.idx = SkipNext(l.steps, l.idx)], d |-> d]
      [] l.pc = "plan" /\ l.idx >= n ->
           [l |-> [l EXCEPT !.pc = "apply", !.applied = 0], d |-> d]
      [] l.pc = "apply" /\ l.applied < Len(l.sla_merges) ->
           LET merge == At(l.sla_merges, l.applied)
           IN IF RaisesOnWrite(d.table, merge)
              THEN [l |-> [l EXCEPT !.pc = "failed", !.result = [kind |-> "None"]],
                    d |-> [d EXCEPT !.table = ApplyUntilRaise(@, merge)]]
              ELSE [l |-> [l EXCEPT !.applied = @ + 1],
                    d |-> [d EXCEPT !.table = ApplyRange(@, merge)]]
      [] l.pc = "apply" /\ l.applied >= Len(l.sla_merges) ->
           [l |-> [l EXCEPT !.pc = "save"],
            d |-> [d EXCEPT
                     !.aux_tables.policies =
                        ClearDataRows(@)
                           \o PolicyRows(CtxGet(l.context, "general_policies_list"))]]
      [] l.pc = "save" ->
           [l |-> [l EXCEPT !.pc = "done", !.result = [kind |-> "stream", doc |-> d]],
            d |-> d]
      [] OTHER -> [l |-> l, d |-> d]

\* The call run alone on a Document of its own, from entry to return.
RECURSIVE RunAlone(_, _)
RunAlone(l, d) ==
    IF l.pc \in {"done", "failed"} THEN l
    ELSE LET next == BuildStep(l, d, << >>) IN RunAlone(next.l, next.d)

\* Step sequences of the concurrent calls: tasks with and without SLA,
\* gateways, and the grouped task without SLA whose range fails the build.
CallSteps ==
    { Step("1", FALSE, "4h", None), Step("", TRUE, None, None), Step("2", FALSE, None, "G1") }

InitCalls ==
    /\ builds \in [BuildIds -> {EntryLocals(s, c) :
                                   s \in SeqsUpTo(CallSteps, MaxCallSteps),
                                   c \in {NoLists}}]
    /\ docs = [b \in BuildIds |-> FreshDoc]
    /\ sessions = {}
    /\ issued = 0
    /\ delivered = {}
    /\ requests = << >>
    /\ steps = << >>
    /\ template = <<HeaderRow>>
    /\ num_tables = AllTables
    /\ context = NoLists
    /\ aux_tables = AuxTables(0)
    /\ table = template
    /\ pc = "lists"
    /\ rendered = 0
    /\ idx = 0
    /\ sla_merges = << >>
    /\ applied = 0
    /\ result = "pending"

\* A worker thread takes the next step of its call.
CallStep(b) ==
    /\ builds[b].pc \notin {"done", "failed"}
    /\ LET next == BuildStep(builds[b], docs[DocOf(b)], NewMerges(b))
       IN /\ builds' = [builds EXCEPT ![b] = next.l]
          /\ docs' = [docs EXCEPT ![DocOf(b)] = next.d]
    /\ UNCHANGED <<sessions, issued, delivered, requests>>
    /\ UNCHANGED <<num_tables, context, aux_tables, template, steps, table, pc, rendered, idx, sla_merges, applied, result>>

NextCalls == \E b \in BuildIds : CallStep(b)

SpecCalls == InitCalls /\ [][NextCalls]_vars

----------------------------------------------------------------------------
(* Preview sessions.  _preview_sessions is a module-level dict shared by
   the handlers, which the server runs in worker threads: a handler's
   reads and writes of the dict are separate steps of its request. *)

\* Session ids a request may name: those that can be issued and one more
\* that never is.
SessionIds == 1..(MaxSessions + 1)

\* A request as received: its handler has not run yet.  late records
\* whether a document response for its session id had already been
\* returned when it arrived; has_xml whether an upload carries 'xml'.
Request(kind, sid, has_xml) ==
    [kind |-> kind, sid |-> sid, has_xml |-> has_xml, pc |-> "start",
     outcome |-> "pending", popped |-> FALSE, late |-> sid \in delivered]

\* _preview_sessions.get(session_id) is truthy exactly for a stored id:
\* the stored value is a non-empty dict.
Stored(store, sid) == sid \in store

\* Mutant: the session is dropped as soon as it has been read.
PopOnLookup(store, sid) == store \ {sid}

\* The store after a handler has read a session: reading leaves it as it is.
KeepOnLookup(store, sid) == store

\* _preview_sessions.pop(session_id, None)
Pop(store, sid) == store \ {sid}

\* The state outside the session handlers: no build of the other sections
\* is running.
NoBuilds ==
    /\ builds = << >>
    /\ docs = << >>
    /\ steps = << >>
    /\ template = <<HeaderRow>>
    /\ num_tables = AllTables
    /\ context = NoLists
    /\ aux_tables = AuxTables(0)
    /\ table = template
    /\ pc = "lists"
    /\ rendered = 0
    /\ idx = 0
    /\ sla_merges = << >>
    /\ applied = 0
    /\ result = "pending"

build_vars == <<builds, docs, num_tables, context, aux_tables, template, steps, table, pc, rendered, idx, sla_merges, applied, result>>

InitSessions ==
    /\ sessions = {}
    /\ issued = 0
    /\ delivered = {}
    /\ requests = << >>
    /\ NoBuilds

\* A request reaches the server.
Arrive ==
    /\ Len(requests) < MaxRequests
    /\ \E kind \in {"upload", "preview", "generate"}, sid \in SessionIds, has_xml \in BOOLEAN :
          /\ kind = "upload" => sid = MaxSessions + 1
          /\ kind # "upload" => has_xml
          /\ requests' = Append(requests, Request(kind, sid, has_xml))
    /\ UNCHANGED <<sessions, issued, delivered, build_vars>>

\* api_upload_xml without 'xml' in the body: 400, nothing stored.
UploadRejected(r) ==
    /\ requests[r].kind = "upload" /\ requests[r].pc = "start"
    /\ ~requests[r].has_xml
    /\ requests' = [requests EXCEPT ![r].pc = "done", ![r].outcome = "400"]
    /\ UNCHANGED <<sessions, issued, delivered, build_vars>>

\* api_upload_xml: a new uuid4 is drawn and the session stored under it.
Upload(r) ==
    /\ requests[r].kind = "upload" /\ requests[r].pc = "start"
    /\ requests[r].has_xml
    /\ issued < MaxSessions
    /\ issued' = issued + 1
    /\ sessions' = sessions \cup {issued + 1}
    /\ requests' = [requests EXCEPT ![r].pc = "done", ![r].outcome = "session",
                                    ![r].sid = issued + 1]
    /\ UNCHANGED <<delivered, build_vars>>

\* preview_page: the form for a stored session, 404 otherwise.
Preview(r) ==
    /\ requests[r].kind = "preview" /\ requests[r].pc = "start"
    /\ requests' = [requests EXCEPT
                      ![r].pc = "done",
                      ![r].outcome = IF Stored(sessions, requests[r].sid) THEN "page" ELSE "404"]
    /\ sessions' = KeepOnLookup(sessions, requests[r].sid)
    /\ UNCHANGED <<issued, delivered, build_vars>>

\* api_generate_and_download: session_data = _preview_sessions.get(...);
\* 404 'Session expired' when there is none.
GenerateLookup(r) ==
    /\ requests[r].kind = "generate" /\ requests[r].pc = "start"
    /\ requests' = IF Stored(sessions, requests[r].sid)
                   THEN [requests EXCEPT ![r].pc = "build"]
                   ELSE [requests EXCEPT ![r].pc = "done", ![r].outcome = "404"]
    /\ sessions' = KeepOnLookup(sessions, requests[r].sid)
    /\ UNCHANGED <<issued, delivered, build_vars>>

\* The context is parsed and the document built: file_stream is a stream.
GenerateBuilt(r) ==
    /\ requests[r].kind = "generate" /\ requests[r].pc = "build"
    /\ requests' = [requests EXCEPT ![r].pc = "cleanup"]
    /\ UNCHANGED <<sessions, issued, delivered, build_vars>>

\* Mutant: a failed build drops the session before the 500 is returned.
GenerateFailedDrops(r) ==
    /\ requests[r].kind = "generate" /\ requests[r].pc = "build"
    /\ requests' = [requests EXCEPT ![r].pc = "done", ![r].outcome = "500"]
    /\ sessions' = Pop(sessions, requests[r].sid)
    /\ UNCHANGED <<issued, delivered, build_vars>>

\* The build returned None, or parsing raised: 500, before any cleanup.
GenerateFailed(r) ==
    /\ requests[r].kind = "generate" /\ requests[r].pc = "build"
    /\ requests' = [requests EXCEPT ![r].pc = "done", ![r].outcome = "500"]
    /\ UNCHANGED <<sessions, issued, delivered, build_vars>>

\* _preview_sessions.pop(session_id, None)
GenerateCleanup(r) ==
    /\ requests[r].kind = "generate" /\ requests[r].pc = "cleanup"
    /\ sessions' = Pop(sessions, requests[r].sid)
    /\ requests' = [requests EXCEPT ![r].pc = "respond", ![r].popped = TRUE]
    /\ UNCHANGED <<issued, delivered, build_vars>>

\* return response: the document goes back to the client.
GenerateRespond(r) ==
    /\ requests[r].kind = "generate" /\ requests[r].pc = "respond"
    /\ requests' = [requests EXCEPT ![r].pc = "done", ![r].outcome = "document"]
    /\ delivered' = delivered \cup {requests[r].sid}
    /\ UNCHANGED <<sessions, issued, build_vars>>

NextSessions ==
    \/ Arrive
    \/ \E r \in DOMAIN requests :
          \/ UploadRejected(r)
          \/ Upload(r)
          \/ Preview(r)
          \/ GenerateLookup(r)
          \/ GenerateBuilt(r)
          \/ GenerateFailed(r)
          \/ GenerateCleanup(r)
          \/ GenerateRespond(r)

SpecSessions == InitSessions /\ [][NextSessions]_vars

----------------------------------------------------------------------------
(* Vocabulary of the properties *)

N == Len(steps)
StepIdx == 0..(N - 1)
Ranges == {At(sla_merges, r) : r \in 0..(Len(sla_merges) - 1)}
InRange(m, k) == m[1] <= k /\ k <= m[2]

\* The planner's scan is over: sla_merges is its final output.
PlanDone == pc \in {"apply", "save", "done", "failed"}

HasSla(k) == Truthy(At(steps, k).sla)
HasGroup(k) == Truthy(At(steps, k).sla_group)
Gateway(k) == At(steps, k).is_gateway
Eligible(k) == HasSla(k) \/ HasGroup(k)

\* The row of step k is table row k + 1.
RowOf(k) == table[k + 2]
SlaCellOf(k) == RowOf(k)[SlaCol + 1]

\* Last index of the longest run i+1.. whose steps all satisfy P.
RunEnd(i, P(_)) ==
    CHOOSE e \in i..(N - 1) :
        /\ \A d \in (i + 1)..e : P(d)
        /\ e + 1 < N => ~P(e + 1)

----------------------------------------------------------------------------
(* C1: a successful build leaves the header row followed by exactly one row
   per step, row k+1 rendered from steps[k] (its ref text, its four role
   texts and its gateway fill are those of that step); with no steps the
   table is the header row alone and the build does not fail. *)
RowShows(row, step) ==
    /\ CellText(row[1]) = (IF Truthy(step.ref) THEN step.ref ELSE "")
    /\ \A c \in 1..4 :
          CellText(row[c + 2]) =
             (IF Truthy(step.raci[Roles[c]]) THEN step.raci[Roles[c]] ELSE "N/A")
    /\ \A c \in 1..6 : (row[c].shd = GatewayFill) <=> step.is_gateway

C1_RowsMatchSteps ==
    /\ pc = "done" =>
          /\ Len(table) = N + 1
          /\ table[1] = template[1]
          /\ \A k \in StepIdx : RowShows(RowOf(k), At(steps, k))
    /\ N = 0 => pc # "failed"

C1_Witness ==
    /\ pc = "done"
    /\ N >= 2
    /\ At(steps, 0).ref # At(steps, 1).ref
    /\ Len(template) > 1
    /\ Len(table) = N + 1

(* C2: a non-gateway step i with an SLA and no group, followed by exactly k
   gateways, yields exactly one range starting at i, and that range is
   (i, i + k, steps[i].sla); step i + k + 1 is in no range starting at i. *)
C2_OwnSlaRange ==
    PlanDone =>
        \A i \in StepIdx :
            (~Gateway(i) /\ HasSla(i) /\ ~HasGroup(i)) =>
                LET e == RunEnd(i, Gateway)
                IN /\ {m \in Ranges : InRange(m, i)} = {<<i, e, At(steps, i).sla>>}
                   /\ Cardinality({r \in 1..Len(sla_merges) : sla_merges[r][1] = i}) = 1
                   /\ e + 1 < N => \A m \in Ranges : m[1] = i => ~InRange(m, e + 1)

C2_Witness ==
    /\ PlanDone
    /\ \E i \in StepIdx :
          /\ ~Gateway(i) /\ HasSla(i) /\ ~HasGroup(i)
          /\ i + 2 < N /\ Gateway(i + 1) /\ ~Gateway(i + 2)
          /\ <<i, i + 1, At(steps, i).sla>> \in Ranges

(* C3: a range opened at a step i that carries group key G ends at the last
   index of the longest run after i made of gateways and steps of group G,
   and its value is steps[i].sla. *)
C3_GroupRange ==
    PlanDone =>
        \A m \in Ranges :
            HasGroup(m[1]) =>
                LET InRun(d) == Gateway(d) \/ At(steps, d).sla_group = At(steps, m[1]).sla_group
                IN /\ m[2] = RunEnd(m[1], InRun)
                   /\ m[3] = At(steps, m[1]).sla

C3_Witness ==
    /\ PlanDone
    /\ \E m \in Ranges :
          /\ HasGroup(m[1]) /\ m[2] = m[1] + 2
          /\ Gateway(m[1] + 1) /\ ~HasGroup(m[1] + 1)
          /\ ~Gateway(m[2]) /\ At(steps, m[2]).sla_group = At(steps, m[1]).sla_group
          /\ At(steps, m[2]).sla # m[3]

(* C4: two adjacent non-gateway eligible steps whose group keys differ (or
   of which exactly one is grouped) lie in two different ranges: the range
   of the first ends at it and the range of the second starts at it. *)
GroupKey(k) == IF HasGroup(k) THEN At(steps, k).sla_group ELSE None

C4_KeyChangeSplits ==
    PlanDone =>
        \A i \in StepIdx :
            (/\ i + 1 < N
             /\ ~Gateway(i) /\ ~Gateway(i + 1)
             /\ Eligible(i) /\ Eligible(i + 1)
             /\ GroupKey(i) # GroupKey(i + 1)) =>
                /\ \E m \in Ranges : InRange(m, i) /\ m[2] = i
                /\ \E m \in Ranges : InRange(m, i + 1) /\ m[1] = i + 1
                /\ ~\E m \in Ranges : InRange(m, i) /\ InRange(m, i + 1)

C4_Witness ==
    /\ PlanDone
    /\ N = 2
    /\ ~Gateway(0) /\ ~Gateway(1)
    /\ HasGroup(0) /\ HasGroup(1) /\ GroupKey(0) # GroupKey(1)
    /\ Len(sla_merges) = 2
    /\ sla_merges[1][2] = 0 /\ sla_merges[2][1] = 1

(* C5: the ranges lie inside 0..n-1, each with start <= end, and are emitted
   in increasing order, each starting after the previous one ended.  It
   holds at every point of the scan, not only at its end. *)
C5_RangesDisjointOrdered ==
    /\ \A r \in 1..Len(sla_merges) :
          /\ 0 <= sla_merges[r][1]
          /\ sla_merges[r][1] <= sla_merges[r][2]
          /\ sla_merges[r][2] <= N - 1
    /\ \A r \in 2..Len(sla_merges) : sla_merges[r][1] > sla_merges[r - 1][2]

C5_Witness ==
    /\ PlanDone
    /\ Len(sla_merges) >= 2
    /\ sla_merges[1][2] > sla_merges[1][1]

(* C6: no range starts at a gateway step, whatever SLA or group key the
   gateways carry and wherever they stand (a gateway at index 0 included). *)
C6_NoGatewayStart ==
    PlanDone => \A m \in Ranges : ~Gateway(m[1])

(* C7: the step right after the end of a range, when there is one, is never
   a gateway: a gateway that follows a step of a range is in that range. *)
C7_GatewayAfterRangeAbsorbed ==
    PlanDone =>
        \A m \in Ranges : m[2] + 1 < N => ~Gateway(m[2] + 1)

C7_Witness ==
    /\ PlanDone
    /\ \E m \in Ranges :
          /\ m[2] >= m[1] + 2
          /\ Gateway(m[1] + 1) /\ Gateway(m[1] + 2)
          /\ ~Gateway(m[1])

(* C8 as stated: two steps with the same group key, gateways or not, that
   are separated by a non-gateway step whose group key is absent or
   different are never in one range. *)
C8_GroupingAdjacencyScoped ==
    PlanDone =>
        \A a \in StepIdx : \A c \in StepIdx :
            (/\ a < c
             /\ HasGroup(a) /\ At(steps, a).sla_group = At(steps, c).sla_group
             /\ \E b \in (a + 1)..(c - 1) : ~Gateway(b) /\ GroupKey(b) # GroupKey(a)) =>
                ~\E m \in Ranges : InRange(m, a) /\ InRange(m, c)

(* C8 amended: two non-gateway steps with the same group key that are
   separated by a non-gateway step whose group key is absent or different
   are never in one range. *)
C8_TasksAdjacencyScoped ==
    PlanDone =>
        \A a \in StepIdx : \A c \in StepIdx :
            (/\ a < c
             /\ ~Gateway(a) /\ ~Gateway(c)
             /\ HasGroup(a) /\ At(steps, a).sla_group = At(steps, c).sla_group
             /\ \E b \in (a + 1)..(c - 1) : ~Gateway(b) /\ GroupKey(b) # GroupKey(a)) =>
                ~\E m \in Ranges : InRange(m, a) /\ InRange(m, c)

C8_Witness ==
    /\ PlanDone
    /\ N = 3
    /\ HasGroup(0) /\ ~Gateway(0) /\ ~Gateway(2)
    /\ At(steps, 0).sla_group = At(steps, 2).sla_group
    /\ ~Gateway(1) /\ ~HasGroup(1) /\ ~HasSla(1)
    /\ Len(sla_merges) = 2

(* C9 as stated: every step without SLA and without group key, gateway or
   not, lies in no range. *)
C9_UnownedExcluded ==
    PlanDone =>
        \A k \in StepIdx :
            (~HasSla(k) /\ ~HasGroup(k)) => ~\E m \in Ranges : InRange(m, k)

(* C9 amended: every non-gateway step without SLA and without group key
   lies in no range. *)
C9_UnownedTaskExcluded ==
    PlanDone =>
        \A k \in StepIdx :
            (~Gateway(k) /\ ~HasSla(k) /\ ~HasGroup(k)) =>
                ~\E m \in Ranges : InRange(m, k)

C9_Witness ==
    /\ PlanDone
    /\ \E k \in StepIdx :
          /\ ~Gateway(k) /\ ~HasSla(k) /\ ~HasGroup(k)
          /\ \E m \in Ranges : m[2] = k - 1
          /\ \E m \in Ranges : m[1] = k + 1

(* C10: after a successful build the SLA cell of every non-gateway step
   without SLA and without group key has no text, no fill and no
   vertical-merge mark. *)
C10_PlainSlaCellBlank ==
    pc = "done" =>
        \A k \in StepIdx :
            (~Gateway(k) /\ ~HasSla(k) /\ ~HasGroup(k)) =>
                /\ CellText(SlaCellOf(k)) = ""
                /\ SlaCellOf(k).shd = NoFill
                /\ SlaCellOf(k).vMerge = << >>

C10_Witness ==
    /\ pc = "done"
    /\ \E k \in StepIdx :
          /\ ~Gateway(k) /\ ~HasSla(k) /\ ~HasGroup(k)
          /\ k >= 2
          /\ SlaCellOf(k - 1).shd = SlaFill
          /\ SlaCellOf(k - 1).vMerge = <<"continue">>
          /\ CellText(SlaCellOf(k - 2)) = "4h"

(* C11: a non-gateway step without SLA and without group key, together with
   every gateway that immediately follows it, lies in no range, whatever
   sla or sla_group those gateways carry. *)
C11_SkipDropsGateways ==
    PlanDone =>
        \A k \in StepIdx :
            (~Gateway(k) /\ ~HasSla(k) /\ ~HasGroup(k)) =>
                \A d \in k..RunEnd(k, Gateway) :
                    ~\E m \in Ranges : InRange(m, d)

C11_Witness ==
    /\ PlanDone
    /\ \E k \in StepIdx :
          /\ ~Gateway(k) /\ ~HasSla(k) /\ ~HasGroup(k)
          /\ k + 1 < N
          /\ Gateway(k + 1) /\ Eligible(k + 1)
          /\ ~\E m \in Ranges : InRange(m, k + 1)

(* C12: after a successful build the SLA cell of every row of every range
   carries the fill F2F2F2. *)
C12_RangeRowsShaded ==
    pc = "done" =>
        \A m \in Ranges :
            \A k \in m[1]..m[2] : SlaCellOf(k).shd = SlaFill

C12_Witness ==
    /\ pc = "done"
    /\ \E m \in Ranges :
          /\ m[2] >= m[1] + 2
          /\ \A k \in m[1]..m[2] : SlaCellOf(k).shd = SlaFill

(* C13: after a successful build the SLA cell of the first row of a range
   of several rows is the vertical-merge anchor and the SLA cell of each
   later row a continuation; the SLA cell of a one-row range carries no
   vertical-merge mark. *)
C13_MergeMarks ==
    pc = "done" =>
        \A m \in Ranges :
            IF m[2] > m[1]
            THEN /\ SlaCellOf(m[1]).vMerge = <<"restart">>
                 /\ \A k \in (m[1] + 1)..m[2] : SlaCellOf(k).vMerge = <<"continue">>
            ELSE SlaCellOf(m[1]).vMerge = << >>

C13_Witness ==
    /\ pc = "done"
    /\ \E m1, m2 \in Ranges :
          /\ m1[2] > m1[1]
          /\ m2[2] = m2[1]
          /\ SlaCellOf(m1[2]).vMerge = <<"continue">>
          /\ SlaCellOf(m2[1]).vMerge = << >>

(* C14: after a successful build the SLA cell of the first row of each
   range holds exactly the value of the range, the SLA cell of every other
   row holds no text, and a row holds no text in its SLA cell from the
   moment it is rendered until the ranges are applied. *)
C14_ValueOnAnchorOnly ==
    /\ pc = "done" =>
          /\ \A m \in Ranges : CellText(SlaCellOf(m[1])) = m[3]
          /\ \A k \in StepIdx :
                (~\E m \in Ranges : m[1] = k) => CellText(SlaCellOf(k)) = ""
    /\ (pc \in {"render", "plan"} \/ (pc = "apply" /\ applied = 0)) =>
          \A k \in 0..(rendered - 1) : CellText(SlaCellOf(k)) = ""

C14_Witness ==
    /\ pc = "done"
    /\ \E m \in Ranges :
          /\ m[2] > m[1]
          /\ m[3] = "4h"
          /\ CellText(SlaCellOf(m[1])) = "4h"
          /\ CellText(SlaCellOf(m[2])) = ""
    /\ \E k \in StepIdx :
          /\ ~\E m \in Ranges : InRange(m, k)
          /\ CellText(SlaCellOf(k)) = ""

(* C15: the applier changes the SLA column only: from the moment the last
   row is rendered, through the applier and to the end of the build, the
   table has one row per step below the template's header row and cells
   0..5 of every data row are exactly as the renderer produced them. *)
C15_ApplierTouchesSlaOnly ==
    pc \in {"plan", "apply", "save", "done", "failed"} =>
        /\ Len(table) = N + 1
        /\ table[1] = template[1]
        /\ \A k \in StepIdx :
              LET row == RowOf(k)
                  fresh == RenderRow(At(steps, k))
              IN \A c \in 1..SlaCol : row[c] = fresh[c]

C15_Witness ==
    /\ pc = "done"
    /\ \E m \in Ranges :
          /\ m[2] > m[1]
          /\ Gateway(m[2])
          /\ SlaCellOf(m[2]).shd = SlaFill
          /\ RowOf(m[2])[SlaCol].shd = GatewayFill
          /\ CellText(RowOf(m[1])[SlaCol]) # ""
          /\ CellText(SlaCellOf(m[1])) = "4h"

\* The SLA column after the ranges order[n], order[n+1], ... were applied
\* in turn, or no column when the write of one of them raises.
RECURSIVE ApplyInOrder(_, _, _)
ApplyInOrder(rows, order, n) ==
    IF n > Len(order)
    THEN [raised |-> FALSE, column |-> [r \in 1..Len(rows) |-> rows[r][SlaCol + 1]]]
    ELSE IF RaisesOnWrite(rows, sla_merges[order[n]])
    THEN [raised |-> TRUE, column |-> << >>]
    ELSE ApplyInOrder(ApplyRange(rows, sla_merges[order[n]]), order, n + 1)

SlaColumn(rows) ==
    [raised |-> FALSE, column |-> [r \in 1..Len(rows) |-> rows[r][SlaCol + 1]]]

EmittedOrder == [r \in 1..Len(sla_merges) |-> r]

RenderedTable == <<template[1]>> \o [k \in 1..N |-> RenderRow(steps[k])]

(* C16: applying the planner's ranges to the rendered rows in any
   permutation gives the same SLA column (text, fill and merge marks of
   every row) as applying them in the emitted order, and that column is
   the one the finished build holds. *)
C16_OrderIrrelevant ==
    /\ (pc = "apply" /\ applied = 0) =>
          LET emitted == ApplyInOrder(table, EmittedOrder, 1)
          IN \A order \in Permutations(1..Len(sla_merges)) :
                 ApplyInOrder(table, order, 1) = emitted
    /\ pc = "done" =>
          LET rows == RenderedTable
              final == SlaColumn(table)
          IN \A order \in Permutations(1..Len(sla_merges)) :
                 ApplyInOrder(rows, order, 1) = final

C16_Witness ==
    /\ pc = "done"
    /\ Len(sla_merges) >= 2
    /\ \E m \in Ranges : m[2] > m[1]
    /\ \E order \in Permutations(1..Len(sla_merges)) :
          /\ order # EmittedOrder
          /\ ApplyInOrder(RenderedTable, order, 1) = SlaColumn(table)

(* C17: once a row is rendered, cells 0..5 carry the fill D9D9D9 when the
   step is a gateway and no fill otherwise; the renderer leaves the SLA
   cell of every row without fill, and the SLA cell of a gateway row that
   lies in no range is still without fill when the build has succeeded. *)
C17_GatewayShading ==
    /\ pc \in {"render", "plan", "apply", "save", "done", "failed"} =>
          \A k \in 0..(rendered - 1) :
              \A c \in 1..SlaCol :
                  RowOf(k)[c].shd = (IF Gateway(k) THEN GatewayFill ELSE NoFill)
    /\ (pc \in {"render", "plan"} \/ (pc = "apply" /\ applied = 0)) =>
          \A k \in 0..(rendered - 1) : SlaCellOf(k).shd = NoFill
    /\ pc = "done" =>
          \A k \in StepIdx :
              (Gateway(k) /\ ~\E m \in Ranges : InRange(m, k)) =>
                  SlaCellOf(k).shd = NoFill

C17_Witness ==
    /\ pc = "done"
    /\ \E k, j, t \in StepIdx :
          /\ Gateway(k) /\ ~\E m \in Ranges : InRange(m, k)
          /\ SlaCellOf(k).shd = NoFill
          /\ RowOf(k)[1].shd = GatewayFill
          /\ Gateway(j) /\ \E m \in Ranges : InRange(m, j)
          /\ SlaCellOf(j).shd = SlaFill
          /\ ~Gateway(t) /\ RowOf(t)[1].shd = NoFill

(* C18: each of the four RACI cells of a rendered row shows the step's
   value for its role when the step has a raci mapping holding a non-empty
   string under that role, and "N/A" when the mapping is missing, the role
   is missing from it, or its value is '' or None; the build fails only on
   a range whose value is None, never on a RACI value. *)
C18_RaciOrPlaceholder ==
    /\ pc \in {"render", "plan", "apply", "save", "done", "failed"} =>
          \A k \in 0..(rendered - 1) :
              \A c \in 1..4 :
                  LET step == At(steps, k)
                      role == Roles[c]
                      shown == CellText(RowOf(k)[c + 2])
                  IN IF /\ "raci" \in DOMAIN step
                        /\ role \in DOMAIN step.raci
                        /\ step.raci[role] \notin {"", None}
                     THEN shown = step.raci[role]
                     ELSE shown = "N/A"
    /\ pc = "failed" => \E m \in Ranges : m[3] = None

C18_Witness ==
    /\ pc = "done"
    /\ N = 2
    /\ "raci" \notin DOMAIN At(steps, 0)
    /\ CellText(RowOf(0)[3]) = "N/A"
    /\ "raci" \in DOMAIN At(steps, 1)
    /\ DOMAIN At(steps, 1).raci = {"accountable", "informed"}
    /\ At(steps, 1).raci["accountable"] = None
    /\ At(steps, 1).raci["informed"] = ""
    /\ \A c \in 1..4 : CellText(RowOf(1)[c + 2]) = "N/A"

(* C19: the description cell of a rendered row has one paragraph per
   paragraph record, in order, centred for 'CENTER', justified for
   'JUSTIFY' and left-aligned for every other alignment value; a build
   none of whose grouped steps lacks an sla never fails, whatever the
   alignment values, and ends by returning the document stream. *)
C19_UnknownAlignmentLeft ==
    /\ pc \in {"render", "plan", "apply", "save", "done", "failed"} =>
          \A k \in 0..(rendered - 1) :
              LET ps == At(steps, k).paragraphs
                  shown == RowOf(k)[2].paras
              IN /\ Len(shown) = Len(ps)
                 /\ \A j \in 1..Len(ps) :
                       shown[j].alignment =
                          (IF ps[j].alignment \in {"CENTER", "JUSTIFY"}
                           THEN ps[j].alignment ELSE "LEFT")
    /\ (\A k \in StepIdx : HasGroup(k) => At(steps, k).sla # None) =>
          /\ pc # "failed"
          /\ result # "None"
          /\ pc = "done" => result = "stream"

C19_Witness ==
    /\ pc = "done"
    /\ result = "stream"
    /\ N = 1
    /\ Len(At(steps, 0).paragraphs) = 2
    /\ At(steps, 0).paragraphs[1].alignment = "RIGHT"
    /\ At(steps, 0).paragraphs[2].alignment = None
    /\ RowOf(0)[2].paras[1].alignment = "LEFT"
    /\ RowOf(0)[2].paras[2].alignment = "LEFT"

\* The rows of an auxiliary table below its first `headers` rows.
DataRows(rows, headers) == SubSeq(rows, headers + 1, Len(rows))

\* The list the build reads under a context key: its records when the key
\* is present, no record otherwise.
Records(key) == IF context[key].present THEN context[key].value ELSE << >>

(* C20: after a successful build each auxiliary table holds its header rows
   (two for abbreviations and references, one for policies) followed by
   one row per record of its list, in list order, when the list has
   records, and by exactly one row with "N/A" in both cells when the list
   is empty or absent; no table is left without a data row. *)
C20_AuxTablesFilled ==
    pc = "done" =>
        LET abbrevs == DataRows(aux_tables.abbreviations, 2)
            refs == DataRows(aux_tables.references, 2)
            policies == DataRows(aux_tables.policies, 1)
            a == Records("abbreviations_list")
            r == Records("references_list")
            g == Records("general_policies_list")
        IN /\ SubSeq(aux_tables.abbreviations, 1, 2) = <<TitleRow, ColumnsRow>>
           /\ SubSeq(aux_tables.references, 1, 2) = <<TitleRow, ColumnsRow>>
           /\ SubSeq(aux_tables.policies, 1, 1) = <<ColumnsRow>>
           /\ Len(abbrevs) >= 1 /\ Len(refs) >= 1 /\ Len(policies) >= 1
           /\ IF Len(a) = 0 THEN abbrevs = << <<"N/A", "N/A">> >>
              ELSE /\ Len(abbrevs) = Len(a)
                   /\ \A j \in 1..Len(a) :
                         /\ "term" \in DOMAIN a[j] => abbrevs[j][1] = a[j].term
                         /\ "definition" \in DOMAIN a[j] => abbrevs[j][2] = a[j].definition
           /\ IF Len(r) = 0 THEN refs = << <<"N/A", "N/A">> >>
              ELSE /\ Len(refs) = Len(r)
                   /\ \A j \in 1..Len(r) :
                         /\ "id" \in DOMAIN r[j] => refs[j][1] = r[j].id
                         /\ "title" \in DOMAIN r[j] => refs[j][2] = r[j].title
           /\ IF Len(g) = 0 THEN policies = << <<"N/A", "N/A">> >>
              ELSE /\ Len(policies) = Len(g)
                   /\ \A j \in 1..Len(g) :
                         "policy" \in DOMAIN g[j] => policies[j][2] = g[j].policy

C20_Witness ==
    /\ pc = "done"
    /\ Len(Records("abbreviations_list")) = 2
    /\ Records("abbreviations_list")[1] # Records("abbreviations_list")[2]
    /\ Len(aux_tables.abbreviations) = 4
    /\ aux_tables.abbreviations[3][1] = Records("abbreviations_list")[1].term
    /\ ~context["references_list"].present
    /\ aux_tables.references = <<TitleRow, ColumnsRow, PlaceholderRow>>
    /\ context["general_policies_list"].present
    /\ Records("general_policies_list") = << >>
    /\ aux_tables.policies = <<ColumnsRow, PlaceholderRow>>

(* C21 as stated: whatever the steps, a build against a document without a
   table at index 6, or whose step table is fewer than seven cells wide,
   never returns a document stream. *)
C21_StructuralAbort ==
    (num_tables <= 6 \/ Columns(template) < NumCols) => result # "stream"

(* C27: against a document that has the step table at index 6, seven cells
   wide, a build fails only on a range whose value is None, never for
   want of the policies table at index 7; a finished build returns the
   stream, with one row per step in the step table, every row of every
   range shaded, the lists of the tables the document has written to them
   and the absent policies table left alone.  (Tables 3 and 4 cannot be
   absent from a document that has a table at index 6.) *)
C27_MissingTablesTolerated ==
    (num_tables > 6 /\ Columns(template) >= NumCols) =>
        /\ pc = "failed" => \E m \in Ranges : m[3] = None /\ applied < Len(sla_merges)
        /\ pc = "done" =>
              /\ result = "stream"
              /\ Len(table) = N + 1
              /\ \A m \in Ranges : \A k \in m[1]..m[2] : SlaCellOf(k).shd = SlaFill
              /\ aux_tables.abbreviations # AuxTables(1).abbreviations
              /\ aux_tables.references # AuxTables(1).references
              /\ (num_tables > 7) <=> (aux_tables.policies # AuxTables(1).policies)

C27_Witness ==
    /\ pc = "done"
    /\ result = "stream"
    /\ num_tables = 7
    /\ context = FullLists
    /\ N = 2
    /\ \E m \in Ranges : SlaCellOf(m[1]).shd = SlaFill
    /\ aux_tables.policies = AuxTables(1).policies
    /\ aux_tables.abbreviations[3] = <<"SLA", "Service level">>

(* C24: the planner's scan terminates: every iteration of the outer loop
   moves idx strictly forward and never past len(steps), the scan is left
   only with idx = len(steps), and a build that has entered the scan
   leaves it. *)
C24_PlannerTerminates ==
    /\ [][(pc = "plan" /\ pc' = "plan") => (idx < idx' /\ idx' <= N)]_vars
    /\ [][(pc = "plan" /\ pc' # "plan") => (idx = N /\ idx' = N)]_vars
    /\ (pc = "plan") ~> (pc = "apply" /\ idx = N)

C24_Witness ==
    /\ pc = "apply"
    /\ idx = N
    /\ N = 3
    /\ Len(sla_merges) = 1
    /\ \E k \in StepIdx : ~Gateway(k) /\ ~\E m \in Ranges : InRange(m, k)
    /\ \E m \in Ranges : m[2] > m[1]

\* The emitted ranges (positions in sla_merges) that contain step k.
RangesHolding(k) == {r \in 1..Len(sla_merges) : InRange(sla_merges[r], k)}

(* C25: every non-gateway step with a non-empty sla or a non-empty
   sla_group lies in exactly one emitted range, and every non-gateway step
   with a non-empty sla and no sla_group is the start of a range. *)
C25_EligibleTasksCovered ==
    PlanDone =>
        \A k \in StepIdx :
            /\ (~Gateway(k) /\ Eligible(k)) => Cardinality(RangesHolding(k)) = 1
            /\ (~Gateway(k) /\ HasSla(k) /\ ~HasGroup(k)) =>
                  \E r \in RangesHolding(k) : sla_merges[r][1] = k

C25_Witness ==
    /\ PlanDone
    /\ N >= 2
    /\ ~Gateway(0) /\ ~Gateway(1)
    /\ HasSla(0) /\ ~HasGroup(0) /\ ~HasGroup(1)
    /\ At(steps, 0).sla = At(steps, 1).sla
    /\ At(sla_merges, 0)[2] = 0
    /\ At(sla_merges, 1)[1] = 1

(* C26: in every emitted range each step after the start is a gateway or,
   when the start step has a non-empty sla_group, a step carrying that
   sla_group; the range of a start step without sla_group holds gateways
   only after its start; the value of the range is the sla of its start
   step. *)
C26_RangeComposition ==
    PlanDone =>
        \A m \in Ranges :
            /\ \A k \in (m[1] + 1)..m[2] :
                  \/ Gateway(k)
                  \/ /\ HasGroup(m[1])
                     /\ At(steps, k).sla_group = At(steps, m[1]).sla_group
            /\ ~HasGroup(m[1]) => \A k \in (m[1] + 1)..m[2] : Gateway(k)
            /\ m[3] = At(steps, m[1]).sla

C26_Witness ==
    /\ PlanDone
    /\ \E m \in Ranges :
          /\ m[2] > m[1]
          /\ HasGroup(m[1])
          /\ ~Gateway(m[2])
          /\ At(steps, m[2]).sla_group = At(steps, m[1]).sla_group
          /\ At(steps, m[2]).sla # m[3]

\* The locals a call had at its entry.
EntryOf(b) == EntryLocals(builds[b].steps, builds[b].context)

\* Whether locals l with Document d occur in the run of a call alone that
\* is at locals l0 with Document d0.
RECURSIVE OnAlonePath(_, _, _, _)
OnAlonePath(l0, d0, l, d) ==
    \/ (l0 = l /\ d0 = d)
    \/ /\ l0.pc \notin {"done", "failed"}
       /\ LET next == BuildStep(l0, d0, << >>)
          IN OnAlonePath(next.l, next.d, l, d)

(* C22: two calls on the same step sequence and lists, each on a fresh
   instance of the template, end with the same list of ranges and the
   same outcome: both fail, or both return a document whose step table
   has the same text, fill and merge marks in every cell. *)
C22_Deterministic ==
    \A a, b \in DOMAIN builds :
        ( /\ builds[a].pc \in {"done", "failed"}
          /\ builds[b].pc \in {"done", "failed"}
          /\ builds[a].steps = builds[b].steps
          /\ builds[a].context = builds[b].context ) =>
            /\ builds[a].sla_merges = builds[b].sla_merges
            /\ builds[a].result = builds[b].result

C22_Witness ==
    /\ builds # << >>
    /\ builds[1].pc = "done" /\ builds[2].pc = "done"
    /\ builds[1].steps = builds[2].steps
    /\ Len(builds[1].steps) = 2
    /\ Len(builds[1].sla_merges) = 1
    /\ builds[1].result.kind = "stream"
    /\ builds[1].result.doc.table = builds[2].result.doc.table
    /\ Len(builds[1].result.doc.table) = 3

(* C23: with two calls running concurrently, their steps interleaved in
   any order, each call's locals and Document are at every moment those of
   a moment of the same call run alone, and each call ends with the ranges
   and the outcome (the document returned, or the failure) of the call run
   alone. *)
C23_BuildsIsolated ==
    \A b \in DOMAIN builds :
        /\ OnAlonePath(EntryOf(b), FreshDoc, builds[b], docs[b])
        /\ builds[b].pc \in {"done", "failed"} =>
              builds[b] = RunAlone(EntryOf(b), FreshDoc)

C23_Witness ==
    /\ builds # << >>
    /\ builds[1].pc = "done"
    /\ builds[1].result.kind = "stream"
    /\ Len(builds[1].result.doc.table) = 3
    /\ builds[2].pc = "apply"
    /\ builds[2].rendered = 1
    /\ Len(docs[2].table) = 2
    /\ builds[1].steps # builds[2].steps

\* The generate-and-download requests for session id.
Generates(id) ==
    {r \in DOMAIN requests :
        requests[r].kind = "generate" /\ requests[r].sid = id}

Popped(req) == req.popped
GotDocument(req) == req.outcome = "document"

(* C28: a session id is in the store from its creation on and is removed
   only by the cleanup of a generate-and-download request for it whose
   document was built; once a document response for it has been returned
   the id is absent from the store for good, and every preview or
   generate-and-download request for it that arrives after that response
   ends with 404 without building anything. *)
C28_SessionConsumedOnSuccess ==
    /\ sessions \subseteq 1..issued
    /\ \A id \in 1..issued : id \notin sessions => {r \in Generates(id) : Popped(requests[r])} # {}
    /\ \A id \in delivered : id \notin sessions
    /\ \A r \in DOMAIN requests :
          (requests[r].late /\ requests[r].kind \in {"preview", "generate"}) =>
              /\ requests[r].pc \in {"start", "done"}
              /\ requests[r].pc = "done" => requests[r].outcome = "404"

C28_Witness ==
    /\ Len(requests) = 3
    /\ requests[1].kind = "upload" /\ requests[1].outcome = "session"
    /\ requests[2].kind = "generate" /\ requests[2].outcome = "document"
    /\ requests[2].sid = requests[1].sid
    /\ requests[3].sid = requests[1].sid
    /\ requests[3].late
    /\ requests[3].outcome = "404"
    /\ requests[1].sid \notin sessions

(* C29: a generate-and-download request that ends with an error (404 for
   an unknown session, 500 for a failed build or an exception) has not
   removed anything from the store, and the step in which it ends leaves
   the store as it was. *)
C29_FailureKeepsSession ==
    /\ [](\A r \in DOMAIN requests :
             (requests[r].kind = "generate" /\ requests[r].outcome \in {"404", "500"}) =>
                 ~requests[r].popped)
    /\ [][\A r \in DOMAIN requests :
             ( /\ requests[r].kind = "generate"
               /\ requests[r].outcome = "pending"
               /\ requests'[r].outcome \in {"404", "500"} ) => sessions' = sessions]_vars

C29_Witness ==
    /\ Len(requests) = 3
    /\ requests[1].kind = "upload" /\ requests[1].outcome = "session"
    /\ requests[2].kind = "generate" /\ requests[2].outcome = "500"
    /\ requests[2].sid = requests[1].sid
    /\ requests[3].kind = "preview" /\ requests[3].outcome = "page"
    /\ requests[3].sid = requests[1].sid
    /\ requests[1].sid \in sessions

(* C30 as stated: of the generate-and-download requests for one session
   id, at most one returns a document. *)
C30_SingleUse ==
    \A id \in SessionIds : Cardinality({r \in Generates(id) : GotDocument(requests[r])}) <= 1

====
